---- MODULE Spec2Model ----
(***************************************************************************)
(* A model of the SecureVault password manager backend:                    *)
(*   backend/utils/encryption.py  EncryptionService, PasswordStrength-     *)
(*                                Checker, the process-wide service        *)
(*   backend/routes/passwords.py  get_password, create_password,           *)
(*                                delete_password, generate_password       *)
(*   backend/models.py            the Password rows                        *)
(*   backend/app.py               create_app's init_encryption_service     *)
(*                                                                         *)
(* A Python str is a sequence of characters; a character is written here   *)
(* as a one-character string ("a"), or as "U+XXXX" for the few non-ASCII   *)
(* code points the model uses.  bytes are sequences of 0..255.             *)
(***************************************************************************)
EXTENDS Integers, Sequences, FiniteSets, TLC

VARIABLES
    encryption_service, \* encryption.py:88  the module global (None or an object id)
    heap,               \* the EncryptionService objects: id -> [key, cipher]
    db,                 \* models.py:32      the passwords table: id -> row
    now,                \* the clock datetime.utcnow() reads
    response,           \* the last HTTP response (with the facts of the request)
    pc,                 \* "stored" once a token has been written to the table
    threads,            \* the init and request threads: position and locals
    call,               \* the last call of a function: its input and result
    hist                \* history (not program state) of the run and of each row

vars == <<encryption_service, heap, db, now, response, pc, threads, call, hist>>

\* Python's None: where a str is expected, a value no str equals; where an
\* object is expected, the reference 0.
None == <<"None">>
Null == 0

----------------------------------------------------------------------------
(* Sequence helpers.                                                       *)

Range(s) == {s[i] : i \in DOMAIN s}

\* The sum and the concatenation of the elements of a sequence, by halves
\* (the recursion is as deep as the logarithm of the length).
RECURSIVE SumSeq(_)
SumSeq(s) ==
    IF Len(s) = 0 THEN 0
    ELSE IF Len(s) = 1 THEN s[1]
    ELSE SumSeq(SubSeq(s, 1, Len(s) \div 2))
         + SumSeq(SubSeq(s, (Len(s) \div 2) + 1, Len(s)))

RECURSIVE Flatten(_)
Flatten(s) ==
    IF Len(s) = 0 THEN <<>>
    ELSE IF Len(s) = 1 THEN s[1]
    ELSE Flatten(SubSeq(s, 1, Len(s) \div 2))
         \o Flatten(SubSeq(s, (Len(s) \div 2) + 1, Len(s)))

\* The element of a one-element set.  The({e(x) : x \in {v}}) is e(v) with v
\* evaluated once, however often e uses x.
The(S) == CHOOSE x \in S : TRUE

Repeat(x, n) == [i \in 1..n |-> x]

IndexOf(s, x) == CHOOSE i \in DOMAIN s : s[i] = x

----------------------------------------------------------------------------
(* Characters.  string.ascii_lowercase, string.ascii_uppercase and         *)
(* string.digits are the Python constants generate_password uses.          *)

ascii_lowercase ==
    <<"a","b","c","d","e","f","g","h","i","j","k","l","m",
      "n","o","p","q","r","s","t","u","v","w","x","y","z">>

ascii_uppercase ==
    <<"A","B","C","D","E","F","G","H","I","J","K","L","M",
      "N","O","P","Q","R","S","T","U","V","W","X","Y","Z">>

digits == <<"0","1","2","3","4","5","6","7","8","9">>

\* generate_password's special = "!@#$%^&*()_+-=[]{}|;:,.<>?"
special ==
    <<"!","@","#","$","%","^","&","*","(",")","_","+","-","=",
      "[","]","{","}","|",";",":",",",".","<",">","?">>

\* check_strength's literal "!@#$%^&*()_+-=[]{}|;:,.<>?"
SpecialCharacters ==
    <<"!","@","#","$","%","^","&","*","(",")","_","+","-","=",
      "[","]","{","}","|",";",":",",",".","<",">","?">>

\* The printable ASCII characters in code point order, 32 (space) to 126 (~);
\* the quotation mark, the backslash and the grave accent are written
\* U+0022, U+005C and U+0060.
Ascii ==
    <<" ","!","U+0022","#","$","%","&","'","(",")","*","+",",","-",".","/">>
    \o digits \o <<":",";","<","=",">","?","@">>
    \o ascii_uppercase \o <<"[","U+005C","]","^","_","U+0060">>
    \o ascii_lowercase \o <<"{","|","}","~">>

\* The non-ASCII code points of the model: an uppercase and a lowercase
\* letter, a decimal digit outside ASCII, and a lone surrogate (a Python str
\* may hold one: json.loads returns it for an escaped surrogate).
NonAscii ==
    <<[ch |-> "U+00C9", cp |-> 201],     \* LATIN CAPITAL LETTER E WITH ACUTE
      [ch |-> "U+00E9", cp |-> 233],     \* LATIN SMALL LETTER E WITH ACUTE
      [ch |-> "U+0663", cp |-> 1635],    \* ARABIC-INDIC DIGIT THREE
      [ch |-> "U+D800", cp |-> 55296]>>  \* a lone (high) surrogate

\* The code point of each character of the tables.
OrdTable ==
    [c \in Range(Ascii) \cup {e.ch : e \in Range(NonAscii)} |->
        IF c \in Range(Ascii) THEN 31 + IndexOf(Ascii, c)
        ELSE (CHOOSE e \in Range(NonAscii) : e.ch = c).cp]

Ord(c) == OrdTable[c]

\* A code point the tables do not name is written "U+other".
Chr(cp) ==
    IF cp \in 32..126 THEN Ascii[cp - 31]
    ELSE IF \E e \in Range(NonAscii) : e.cp = cp
         THEN (CHOOSE e \in Range(NonAscii) : e.cp = cp).ch
         ELSE "U+other"

\* str.isupper / str.islower / str.isdigit of one character (Unicode aware).
isupper(c) == c \in Range(ascii_uppercase) \cup {"U+00C9"}
islower(c) == c \in Range(ascii_lowercase) \cup {"U+00E9"}
isdigit(c) == c \in Range(digits) \cup {"U+0663"}

----------------------------------------------------------------------------
(* str.encode() and bytes.decode(): UTF-8, strict.  A result is            *)
(* [ok |-> TRUE, val |-> ...] or [ok |-> FALSE, msg |-> str(e)].           *)

Ok(v)  == [ok |-> TRUE, val |-> v]
Err(m) == [ok |-> FALSE, msg |-> m]

UnicodeEncodeError == "'utf-8' codec can't encode character: surrogates not allowed"
UnicodeDecodeError == "'utf-8' codec can't decode byte"

IsSurrogate(cp) == cp >= 55296 /\ cp <= 57343

EncodeChar(c) ==
    LET cp == Ord(c) IN
    IF cp < 128 THEN <<cp>>
    ELSE IF cp < 2048 THEN <<192 + (cp \div 64), 128 + (cp % 64)>>
    ELSE <<224 + (cp \div 4096), 128 + ((cp \div 64) % 64), 128 + (cp % 64)>>

\* One byte per character when all are ASCII, else up to three.
EncodeChars(s) ==
    IF \A i \in DOMAIN s : Ord(s[i]) < 128
    THEN [i \in DOMAIN s |-> Ord(s[i])]
    ELSE Flatten([i \in DOMAIN s |-> EncodeChar(s[i])])

\* s.encode()
str_encode(str) ==
    The({ IF \E i \in DOMAIN s : IsSurrogate(Ord(s[i]))
          THEN Err(UnicodeEncodeError)
          ELSE Ok(EncodeChars(s)) : s \in {str} })

IsCont(b) == b >= 128 /\ b <= 191

\* The number of bytes of the UTF-8 sequence that starts b (0: b starts none).
SeqLen(b) ==
    IF b < 128 THEN 1
    ELSE IF b >= 194 /\ b <= 223 THEN 2
    ELSE IF b >= 224 /\ b <= 239 THEN 3
    ELSE IF b >= 240 /\ b <= 244 THEN 4
    ELSE 0

\* Whether a well-formed sequence starts at b[i]: its continuation bytes
\* follow, and it is neither overlong, nor a surrogate, nor beyond U+10FFFF.
WellFormedAt(b, i) ==
    LET n == SeqLen(b[i]) IN
    /\ n > 0
    /\ Len(b) >= i + n - 1
    /\ \A j \in (i + 1)..(i + n - 1) : IsCont(b[j])
    /\ (b[i] = 224 => b[i + 1] >= 160)
    /\ (b[i] = 237 => b[i + 1] <= 159)
    /\ (b[i] = 240 => b[i + 1] >= 144)
    /\ (b[i] = 244 => b[i + 1] <= 143)

\* Whether the continuation byte b[i] belongs to the sequence of a lead byte.
Covered(b, i) ==
    \E k \in 1..3 :
        /\ i - k >= 1
        /\ SeqLen(b[i - k]) > k
        /\ \A j \in (i - k + 1)..i : IsCont(b[j])

CodePointAt(b, i) ==
    LET n == SeqLen(b[i]) IN
    IF n = 1 THEN b[i]
    ELSE IF n = 2 THEN (b[i] - 192) * 64 + (b[i + 1] - 128)
    ELSE IF n = 3 THEN (b[i] - 224) * 4096 + (b[i + 1] - 128) * 64 + (b[i + 2] - 128)
    ELSE (b[i] - 240) * 262144 + (b[i + 1] - 128) * 4096
         + (b[i + 2] - 128) * 64 + (b[i + 3] - 128)

WellFormed(b) ==
    \A i \in DOMAIN b : IF IsCont(b[i]) THEN Covered(b, i) ELSE WellFormedAt(b, i)

\* One character per lead byte.
DecodeBytes(b) ==
    LET IsLead(i) == ~IsCont(b[i]) IN
    The({ [k \in DOMAIN leads |-> Chr(CodePointAt(b, leads[k]))] :
          leads \in {SelectSeq([i \in DOMAIN b |-> i], IsLead)} })

\* b.decode()
bytes_decode(bytes) ==
    The({ IF WellFormed(b) THEN Ok(DecodeBytes(b)) ELSE Err(UnicodeDecodeError) :
          b \in {bytes} })

----------------------------------------------------------------------------
(* base64.urlsafe_b64encode and base64.urlsafe_b64decode, on bytes.        *)
(* The decoder is binascii.a2b_base64 in its default (non-strict) mode     *)
(* after "-" and "_" are translated to "+" and "/": bytes outside the      *)
(* alphabet are skipped, and padding that completes a quad ends the input. *)

B64Alphabet == ascii_uppercase \o ascii_lowercase \o digits \o <<"-", "_">>

B64Char(v) == Ord(B64Alphabet[v + 1])

\* The value of an alphabet byte, 64 for any other byte.
B64Value(b) ==
    IF b >= 65 /\ b <= 90 THEN b - 65
    ELSE IF b >= 97 /\ b <= 122 THEN b - 71
    ELSE IF b >= 48 /\ b <= 57 THEN b + 4
    ELSE IF b = 45 \/ b = 43 THEN 62
    ELSE IF b = 95 \/ b = 47 THEN 63
    ELSE 64

Pad == 61  \* "="

\* The k-th character of the encoding of b: three bytes give four
\* characters; a last group of one or two bytes is padded.
B64EncodeAt(b, k) ==
    LET n     == Len(b)
        At(i) == IF i <= n THEN b[i] ELSE 0
        g     == 3 * ((k - 1) \div 4)
        pos   == (k - 1) % 4
    IN  IF pos = 0 THEN B64Char(At(g + 1) \div 4)
        ELSE IF pos = 1 THEN B64Char((At(g + 1) % 4) * 16 + (At(g + 2) \div 16))
        ELSE IF pos = 2
             THEN IF g + 2 > n THEN Pad
                  ELSE B64Char((At(g + 2) % 16) * 4 + (At(g + 3) \div 64))
        ELSE IF g + 3 > n THEN Pad ELSE B64Char(At(g + 3) % 64)

urlsafe_b64encode(bytes) ==
    The({ [k \in 1..(4 * ((Len(b) + 2) \div 3)) |-> B64EncodeAt(b, k)] :
          b \in {bytes} })

IsData(b) == B64Value(b) # 64

\* a2b_base64 reads the bytes in order with quad_pos, the position in the
\* quad (the number of alphabet bytes read so far, modulo 4), and pads, the
\* padding bytes seen since the last alphabet byte while quad_pos >= 2.  It
\* stops at the first padding byte with quad_pos >= 2 and
\* quad_pos + pads >= 4 (that byte counted).  B64Stop is that position, or
\* 0 when the loop reads all of t.
B64Stop(t) ==
    LET PadPos   == {i \in DOMAIN t : t[i] = Pad}
        NData(i) == Len(SelectSeq(SubSeq(t, 1, i - 1), IsData))
        Pads(i)  == Cardinality({j \in PadPos :
                        j <= i /\ \A m \in (j + 1)..(i - 1) : ~IsData(t[m])})
    IN  The({ IF Stops = {} THEN 0 ELSE CHOOSE i \in Stops : \A j \in Stops : i <= j :
              Stops \in {{i \in PadPos : \E q \in {NData(i) % 4} :
                                             q >= 2 /\ q + Pads(i) >= 4}} })

\* The k-th byte that four alphabet bytes of data give.
B64DecodeAt(data, k) ==
    LET v(i) == B64Value(data[i])
        g    == 4 * ((k - 1) \div 3)
        r    == (k - 1) % 3
    IN  IF r = 0 THEN v(g + 1) * 4 + (v(g + 2) \div 16)
        ELSE IF r = 1 THEN (v(g + 2) % 16) * 16 + (v(g + 3) \div 4)
        ELSE (v(g + 3) % 4) * 64 + v(g + 4)

\* The bytes of the alphabet bytes read; at the end of the input with
\* quad_pos # 0, binascii.Error.
B64Decoded(data, stopped) ==
    LET m    == Len(data)
        nout == 3 * (m \div 4) + (IF m % 4 = 0 THEN 0 ELSE (m % 4) - 1)
    IN  IF ~stopped /\ m % 4 # 0 THEN Err("Incorrect padding")
        ELSE Ok([k \in 1..nout |-> B64DecodeAt(data, k)])

urlsafe_b64decode(text) ==
    The({ The({ The({ B64Decoded(data, stop # 0) :
                      data \in {SelectSeq(SubSeq(t, 1, IF stop = 0 THEN Len(t)
                                                       ELSE stop - 1), IsData)} }) :
                stop \in {B64Stop(t)} }) :
          t \in {text} })

----------------------------------------------------------------------------
(* The cryptography library, as far as encryption.py uses it.  The token   *)
(* layout is Fernet's: version, timestamp, IV, ciphertext, tag.  The three *)
(* primitives are stand-ins that keep what the code relies on:             *)
(*   PBKDF2-HMAC-SHA256  a deterministic function of password, salt,       *)
(*                       iteration count and length;                       *)
(*   AES-128-CBC         a keyed, invertible, chained block transformation;*)
(*   HMAC-SHA256         a keyed checksum of the message that changes      *)
(*                       whenever one byte of message or key changes       *)
(*                       (collisions of the real HMAC are negligible; the  *)
(*                       stand-in has none among single-byte changes).     *)

Version   == 128   \* 0x80
TsLen     == 8
BlockSize == 16    \* AES block, PKCS7(128)
TagLen    == 32    \* HMAC-SHA256
KeyLen    == 32    \* length=32
Iterations == 100000

Byte == 0..255

\* n.to_bytes(len, "big")
RECURSIVE ToBytes(_, _)
ToBytes(n, len) ==
    IF len = 0 THEN <<>> ELSE Append(ToBytes(n \div 256, len - 1), n % 256)

\* PBKDF2HMAC(SHA256, length, salt, iterations).derive(password)
PBKDF2HMAC_derive(password, salt, iterations, length) ==
    The({ [i \in 1..length |-> (mix + 7 * i) % 256] :
          mix \in {SumSeq([j \in DOMAIN password |-> password[j] * j])
                   + SumSeq(salt) + iterations} })

\* HMAC(key, SHA256).update(msg).finalize()
HMAC(key, msg) ==
    The({ [j \in 1..TagLen |->
             (3 * k[((j - 1) % Len(k)) + 1] + j + Len(m)
              + SumSeq([n \in 1..((Len(m) + TagLen - j) \div TagLen) |->
                           m[j + (n - 1) * TagLen]])) % 256] :
          k \in {key}, m \in {msg} })

\* padding.PKCS7(128).padder()
PKCS7_pad(data) ==
    LET n == BlockSize - (Len(data) % BlockSize) IN data \o Repeat(n, n)

\* padding.PKCS7(128).unpadder(): finalize raises ValueError on bad padding.
PKCS7_unpad(data) ==
    IF Len(data) = 0 \/ Len(data) % BlockSize # 0 THEN Err("Invalid padding bytes.")
    ELSE LET n == data[Len(data)] IN
         IF n < 1 \/ n > BlockSize
            \/ \E i \in (Len(data) - n + 1)..Len(data) : data[i] # n
         THEN Err("Invalid padding bytes.")
         ELSE Ok(SubSeq(data, 1, Len(data) - n))

\* Cipher(AES(key), CBC(iv)).encryptor(), on whole blocks: each block is
\* chained to the block before it (the first one to the IV).
RECURSIVE AES_CBC_blocks(_, _, _)
AES_CBC_blocks(key, prev, data) ==
    IF Len(data) = 0 THEN <<>>
    ELSE The({ block \o AES_CBC_blocks(key, block, SubSeq(data, BlockSize + 1, Len(data))) :
               block \in {[i \in 1..BlockSize |-> (data[i] + key[i] + prev[i]) % 256]} })

AES_CBC_encrypt(key, iv, data) ==
    The({ AES_CBC_blocks(k[1], k[2], k[3]) : k \in {<<key, iv, data>>} })

\* Cipher(AES(key), CBC(iv)).decryptor(): finalize raises ValueError when the
\* input is not a whole number of blocks.
AES_CBC_decrypt(key, iv, data) ==
    IF Len(data) % BlockSize # 0
    THEN Err("The length of the provided data is not a multiple of the block length.")
    ELSE Ok([i \in 1..Len(data) |->
                (data[i] + 512 - key[((i - 1) % BlockSize) + 1]
                 - (IF i <= BlockSize THEN iv[i] ELSE data[i - BlockSize])) % 256])

\* Fernet(key): the key is 32 url-safe base64-encoded bytes, split into the
\* signing key and the encryption key.
Fernet(key) ==
    The({ IF ~k.ok \/ Len(k.val) # KeyLen
          THEN Err("Fernet key must be 32 url-safe base64-encoded bytes.")
          ELSE Ok([signing_key    |-> SubSeq(k.val, 1, KeyLen \div 2),
                   encryption_key |-> SubSeq(k.val, (KeyLen \div 2) + 1, KeyLen)]) :
          k \in {urlsafe_b64decode(key)} })

\* Fernet.encrypt(data), with the time and the IV it draws.
Fernet_encrypt(cipher, data, current_time, iv) ==
    The({ urlsafe_b64encode(basic_parts \o HMAC(cipher.signing_key, basic_parts)) :
          basic_parts \in
            {<<Version>> \o ToBytes(current_time, TsLen) \o iv
             \o AES_CBC_encrypt(cipher.encryption_key, iv, PKCS7_pad(data))} })

InvalidToken == ""   \* str(InvalidToken()) is the empty string

\* Fernet._decrypt_data(data): the tag is verified before anything is
\* decrypted.
Fernet_decrypt_data(cipher, data) ==
    LET cut    == IF Len(data) > TagLen THEN Len(data) - TagLen ELSE 0
        signed == SubSeq(data, 1, cut)
        tag    == SubSeq(data, cut + 1, Len(data))
        iv         == SubSeq(data, 1 + TsLen + 1, 1 + TsLen + BlockSize)
        ciphertext == SubSeq(data, 1 + TsLen + BlockSize + 1, cut)
    IN  IF HMAC(cipher.signing_key, signed) # tag THEN Err(InvalidToken)
        ELSE The({ IF ~padded.ok THEN Err(InvalidToken)
                   ELSE The({ IF ~unpadded.ok THEN Err(InvalidToken)
                              ELSE Ok(unpadded.val) :
                              unpadded \in {PKCS7_unpad(padded.val)} }) :
                   padded \in {AES_CBC_decrypt(cipher.encryption_key, iv, ciphertext)} })

\* Fernet.decrypt(token) with ttl=None: Ok(plaintext) or Err(str(InvalidToken)).
Fernet_decrypt(cipher, token) ==
    The({ IF ~d.ok THEN Err(InvalidToken)
          ELSE IF Len(d.val) = 0 \/ d.val[1] # Version THEN Err(InvalidToken)
          ELSE IF Len(d.val) < 1 + TsLen THEN Err(InvalidToken)
          ELSE Fernet_decrypt_data(c, d.val) :
          c \in {cipher}, d \in {urlsafe_b64decode(token)} })

----------------------------------------------------------------------------
(* backend/utils/encryption.py                                             *)

\* b'securevault_salt_do_not_change!'
FixedSalt ==
    EncodeChars(<<"s","e","c","u","r","e","v","a","u","l","t","_","s","a","l","t",
                  "_","d","o","_","n","o","t","_","c","h","a","n","g","e","!">>)

\* EncryptionService._derive_key(password), salt=None
derive_key(password) ==
    urlsafe_b64encode(PBKDF2HMAC_derive(password, FixedSalt, Iterations, KeyLen))

\* Fernet.generate_key(), given the bytes os.urandom(32) returns
generate_key(random) == urlsafe_b64encode(random)

\* "if encryption_key:" / "if not plaintext:": None and the empty str are falsy.
Truthy(s) == s # None /\ s # <<>>

\* __init__ deriving the key with a salt drawn per object.
EncryptionService_key_salted(encryption_key, random) ==
    IF Truthy(encryption_key)
    THEN The({ IF e.ok
               THEN Ok(urlsafe_b64encode(
                        PBKDF2HMAC_derive(e.val, random, Iterations, KeyLen)))
               ELSE Err(e.msg) :
               e \in {str_encode(encryption_key)} })
    ELSE Ok(generate_key(random))

\* EncryptionService.__init__, first statement: self.key.  Ok(key) or the
\* exception encryption_key.encode() raises.
EncryptionService_key(encryption_key, random) ==
    IF Truthy(encryption_key)
    THEN The({ IF e.ok THEN Ok(derive_key(e.val)) ELSE Err(e.msg) :
               e \in {str_encode(encryption_key)} })
    ELSE Ok(generate_key(random))

\* EncryptionService.__init__, second statement: self.cipher = Fernet(self.key)
EncryptionService_cipher(key) == Fernet(key)

\* EncryptionService(encryption_key): Ok(the object) or the exception raised.
EncryptionService(encryption_key, random) ==
    The({ IF ~k.ok THEN k
          ELSE The({ IF ~c.ok THEN c ELSE Ok([key |-> k.val, cipher |-> c.val]) :
                     c \in {EncryptionService_cipher(k.val)} }) :
          k \in {EncryptionService_key(encryption_key, random)} })

EncryptionFailed == "Encryption failed: "
DecryptionFailed == "Decryption failed: "

\* EncryptionService.encrypt(plaintext), with the time and IV Fernet draws.
\* bytes.decode() of a base64 text cannot fail.
encrypt(self, plaintext, current_time, iv) ==
    IF ~Truthy(plaintext) THEN Ok(<<>>)
    ELSE The({ IF ~e.ok THEN Err(EncryptionFailed \o e.msg)
               ELSE The({ Ok(encrypted.val) :
                          encrypted \in {bytes_decode(
                              Fernet_encrypt(self.cipher, e.val, current_time, iv))} }) :
               e \in {str_encode(plaintext)} })

\* decrypt with decrypted.decode("latin-1"): one character per byte.
decrypt_latin1(self, encrypted_text) ==
    IF ~Truthy(encrypted_text) THEN Ok(<<>>)
    ELSE The({ IF ~e.ok THEN Err(DecryptionFailed \o e.msg)
               ELSE The({ IF ~d.ok THEN Err(DecryptionFailed \o d.msg)
                          ELSE Ok([i \in DOMAIN d.val |-> Chr(d.val[i])]) :
                          d \in {Fernet_decrypt(self.cipher, e.val)} }) :
               e \in {str_encode(encrypted_text)} })

\* decrypt with an except clause that returns "" instead of raising.
decrypt_quiet(self, encrypted_text) ==
    IF ~Truthy(encrypted_text) THEN Ok(<<>>)
    ELSE The({ IF ~e.ok THEN Ok(<<>>)
               ELSE The({ IF ~d.ok THEN Ok(<<>>)
                          ELSE The({ IF ~t.ok THEN Ok(<<>>) ELSE Ok(t.val) :
                                     t \in {bytes_decode(d.val)} }) :
                          d \in {Fernet_decrypt(self.cipher, e.val)} }) :
               e \in {str_encode(encrypted_text)} })

\* EncryptionService.decrypt(encrypted_text)
decrypt(self, encrypted_text) ==
    IF ~Truthy(encrypted_text) THEN Ok(<<>>)
    ELSE The({ IF ~e.ok THEN Err(DecryptionFailed \o e.msg)
               ELSE The({ IF ~d.ok THEN Err(DecryptionFailed \o d.msg)
                          ELSE The({ IF ~t.ok THEN Err(DecryptionFailed \o t.msg)
                                     ELSE Ok(t.val) :
                                     t \in {bytes_decode(d.val)} }) :
                          d \in {Fernet_decrypt(self.cipher, e.val)} }) :
               e \in {str_encode(encrypted_text)} })

\* check_strength asking for an uppercase or a lowercase letter.
check_strength_either(password) ==
    LET len8    == Len(password) >= 8
        len12   == Len(password) >= 12
        cases   == (\E i \in DOMAIN password : isupper(password[i]))
                   \/ (\E i \in DOMAIN password : islower(password[i]))
        digit   == \E i \in DOMAIN password : isdigit(password[i])
        spec    == \E i \in DOMAIN password : password[i] \in Range(SpecialCharacters)
        score   == (IF len8 THEN 1 ELSE 0) + (IF len12 THEN 1 ELSE 0)
                   + (IF cases THEN 1 ELSE 0) + (IF digit THEN 1 ELSE 0)
                   + (IF spec THEN 1 ELSE 0)
        feedback ==
            (IF len8 THEN <<>> ELSE <<"Password should be at least 8 characters">>)
            \o (IF cases THEN <<>> ELSE <<"Add uppercase and lowercase letters">>)
            \o (IF digit THEN <<>> ELSE <<"Add numbers">>)
            \o (IF spec THEN <<>> ELSE <<"Add special characters">>)
    IN  [is_weak   |-> score < 4,
         score     |-> IF score > 0 THEN score ELSE 0,
         max_score |-> 5,
         feedback  |-> feedback]

\* check_strength asking for more than 8 characters.
check_strength_longer(password) ==
    LET len8    == Len(password) > 8
        len12   == Len(password) >= 12
        cases   == (\E i \in DOMAIN password : isupper(password[i]))
                   /\ (\E i \in DOMAIN password : islower(password[i]))
        digit   == \E i \in DOMAIN password : isdigit(password[i])
        spec    == \E i \in DOMAIN password : password[i] \in Range(SpecialCharacters)
        score   == (IF len8 THEN 1 ELSE 0) + (IF len12 THEN 1 ELSE 0)
                   + (IF cases THEN 1 ELSE 0) + (IF digit THEN 1 ELSE 0)
                   + (IF spec THEN 1 ELSE 0)
        feedback ==
            (IF len8 THEN <<>> ELSE <<"Password should be at least 8 characters">>)
            \o (IF cases THEN <<>> ELSE <<"Add uppercase and lowercase letters">>)
            \o (IF digit THEN <<>> ELSE <<"Add numbers">>)
            \o (IF spec THEN <<>> ELSE <<"Add special characters">>)
    IN  [is_weak   |-> score < 4,
         score     |-> IF score > 0 THEN score ELSE 0,
         max_score |-> 5,
         feedback  |-> feedback]

\* PasswordStrengthChecker.check_strength(password)
check_strength(password) ==
    LET len8    == Len(password) >= 8
        len12   == Len(password) >= 12
        cases   == (\E i \in DOMAIN password : isupper(password[i]))
                   /\ (\E i \in DOMAIN password : islower(password[i]))
        digit   == \E i \in DOMAIN password : isdigit(password[i])
        spec    == \E i \in DOMAIN password : password[i] \in Range(SpecialCharacters)
        score   == (IF len8 THEN 1 ELSE 0) + (IF len12 THEN 1 ELSE 0)
                   + (IF cases THEN 1 ELSE 0) + (IF digit THEN 1 ELSE 0)
                   + (IF spec THEN 1 ELSE 0)
        feedback ==
            (IF len8 THEN <<>> ELSE <<"Password should be at least 8 characters">>)
            \o (IF cases THEN <<>> ELSE <<"Add uppercase and lowercase letters">>)
            \o (IF digit THEN <<>> ELSE <<"Add numbers">>)
            \o (IF spec THEN <<>> ELSE <<"Add special characters">>)
    IN  [is_weak   |-> score < 4,
         score     |-> IF score > 0 THEN score ELSE 0,
         max_score |-> 5,
         feedback  |-> feedback]

\* PasswordStrengthChecker.is_reused(password, existing_passwords)
is_reused(password, existing_passwords) ==
    \E i \in DOMAIN existing_passwords : existing_passwords[i] = password

NotInitialized == "Encryption service not initialized"

\* get_encryption_service(): Ok(the object the global refers to) or the
\* exception raised.
get_encryption_service(global) ==
    IF global = Null THEN Err(NotInitialized) ELSE Ok(global)

----------------------------------------------------------------------------
(* Bounds and inputs of the model.                                         *)

MaxTime  == 0    \* Fernet reads a time in 0..MaxTime
MaxId    == 2    \* row ids are 1..MaxId

Users == {1, 2}

\* What os.urandom returns: n times one of these bytes.
RandomBytes == {7, 200}
urandom(n) == {Repeat(r, n) : r \in RandomBytes}

\* app.config['ENCRYPTION_KEY']: two passphrases, none, the empty one, and
\* one that UTF-8 cannot encode.
Passphrases == {<<"k","1">>, <<"k","2">>, None, <<>>, <<"U+D800">>}

\* "Abcdef12!" and "pw", and a password json.loads accepts but UTF-8 cannot
\* encode.
StrongPassword == <<"A","b","c","d","e","f","1","2","!">>
PasswordTexts  == {<<>>, <<"p","w">>, StrongPassword, <<"U+D800">>}
ServiceNames   == {<<" ">>, <<"s">>}

NoData == [json |-> FALSE]   \* request.get_json() gave nothing
RequestData ==
    {NoData} \cup [service_name : ServiceNames, password : PasswordTexts]

----------------------------------------------------------------------------
(* backend/routes/passwords.py and backend/models.py.  A row of the        *)
(* passwords table keeps the columns the handlers read or write; the       *)
(* free-text columns (website_url, username, email_address, notes,         *)
(* category) are copied from the request and never read by them.           *)

\* str.strip(), for the space character
strip(s) ==
    LET keep == {i \in DOMAIN s : s[i] # " "} IN
    IF keep = {} THEN <<>>
    ELSE SubSeq(s, CHOOSE i \in keep : \A j \in keep : i <= j,
                   CHOOSE i \in keep : \A j \in keep : i >= j)

NoTime == -1   \* a NULL last_used

\* The query without its user_id filter: filter_by(id=password_id).first()
FindAny(rows, password_id, current_user_id) ==
    IF password_id \in DOMAIN rows THEN password_id ELSE Null

\* Password.query.filter_by(id=password_id, user_id=current_user_id).first()
FindOwned(rows, password_id, current_user_id) ==
    IF password_id \in DOMAIN rows /\ rows[password_id].user_id = current_user_id
    THEN password_id ELSE Null

\* The ids of the table, in order.
Ids(rows) ==
    LET top == IF DOMAIN rows = {} THEN 0
               ELSE CHOOSE i \in DOMAIN rows : \A j \in DOMAIN rows : i >= j
        Has(i) == i \in DOMAIN rows
    IN  SelectSeq([i \in 1..top |-> i], Has)

\* The query without its filter: Password.query.all()
RowsAll(rows, current_user_id) == Ids(rows)

\* Password.query.filter_by(user_id=current_user_id).all(), in id order
RowsOf(rows, current_user_id) ==
    LET Mine(i) == rows[i].user_id = current_user_id
    IN  SelectSeq(Ids(rows), Mine)

\* The primary key the database gives a new row (the largest id plus one).
NextId(rows) ==
    IF DOMAIN rows = {} THEN 1
    ELSE 1 + CHOOSE i \in DOMAIN rows : \A j \in DOMAIN rows : i >= j

Reply(op, user, id, status, error, password) ==
    [op |-> op, user |-> user, id |-> id, status |-> status, error |-> error,
     password |-> password]

\* get_password(password_id) for the authenticated user: the rows and the
\* response after it.
get_password(rows, global, objects, current_user_id, password_id, utcnow) ==
    LET found == FindOwned(rows, password_id, current_user_id)
        svc   == get_encryption_service(global)
        reply(status, error, password) ==
            Reply("get_password", current_user_id, password_id, status, error, password)
    IN
    IF found = Null
    THEN [db |-> rows, response |-> reply(404, "Password not found", None)]
    ELSE IF ~svc.ok
    THEN [db |-> rows,
          response |-> reply(500, "Failed to fetch password: " \o svc.msg, None)]
    ELSE The({
        IF ~decrypted.ok
        THEN [db |-> rows,
              response |-> reply(500, "Failed to fetch password: " \o decrypted.msg,
                                 None)]
        ELSE [db |-> [rows EXCEPT ![found].last_used = utcnow,
                                  ![found].updated_at = utcnow],
              response |-> reply(200, "", decrypted.val)] :
        decrypted \in {decrypt(objects[svc.val], rows[found].encrypted_password)} })

\* The plaintexts of the caller's rows that decrypt (create_password's loop,
\* whose bare except skips a row that does not).
DecryptedPasswords(rows, self, current_user_id) ==
    LET Good(r) == r.ok IN
    The({ [k \in DOMAIN good |-> good[k].val] :
          good \in {SelectSeq(
              The({ [k \in DOMAIN mine |->
                        decrypt(self, rows[mine[k]].encrypted_password)] :
                    mine \in {RowsOf(rows, current_user_id)} }),
              Good)} })

\* The row create_password adds.
NewRow(current_user_id, service_name, encrypted_password, strength, reused, utcnow) ==
    [user_id            |-> current_user_id,
     service_name       |-> service_name,
     encrypted_password |-> encrypted_password,
     is_weak            |-> strength.is_weak,
     is_reused          |-> reused,
     created_at         |-> utcnow,
     updated_at         |-> utcnow,
     last_used          |-> NoTime]

\* create_password() for the authenticated user, with the JSON body and the
\* IV Fernet draws.
create_password(rows, global, objects, current_user_id, data, utcnow, iv) ==
    LET svc == get_encryption_service(global)
        reply(id, status, error) ==
            Reply("create_password", current_user_id, id, status, error, None)
    IN
    IF data = NoData
    THEN [db |-> rows, response |-> reply(Null, 400, "No data provided")]
    ELSE IF ~Truthy(strip(data.service_name)) \/ ~Truthy(data.password)
    THEN [db |-> rows,
          response |-> reply(Null, 400, "Service name and password are required")]
    ELSE IF ~svc.ok
    THEN [db |-> rows,
          response |-> reply(Null, 500, "Failed to create password: " \o svc.msg)]
    ELSE The({
        IF ~encrypted_password.ok
        THEN [db |-> rows,
              response |-> reply(Null, 500,
                                 "Failed to create password: " \o encrypted_password.msg)]
        ELSE The({
            [db |-> [i \in DOMAIN rows \cup {NextId(rows)} |->
                        IF i \in DOMAIN rows THEN rows[i] ELSE row],
             response |-> reply(NextId(rows), 201, "")] :
            row \in {NewRow(current_user_id, strip(data.service_name),
                            encrypted_password.val, check_strength(data.password),
                            is_reused(data.password,
                                      DecryptedPasswords(rows, objects[svc.val],
                                                         current_user_id)),
                            utcnow)} }) :
        encrypted_password \in {encrypt(objects[svc.val], data.password, utcnow, iv)} })

\* delete_password(password_id) for the authenticated user
delete_password(rows, current_user_id, password_id) ==
    LET found == FindOwned(rows, password_id, current_user_id)
        reply(status, error) ==
            Reply("delete_password", current_user_id, password_id, status, error, None)
    IN
    IF found = Null
    THEN [db |-> rows, response |-> reply(404, "Password not found")]
    ELSE [db |-> [i \in DOMAIN rows \ {found} |-> rows[i]],
          response |-> reply(200, "")]

\* secrets.choice(seq), for the number r that secrets.randbelow gives.
choice(seq, r) == seq[(r % Len(seq)) + 1]

\* str.lower(), for ASCII letters
lower(s) ==
    [i \in DOMAIN s |->
        IF s[i] \in Range(ascii_uppercase)
        THEN ascii_lowercase[IndexOf(ascii_uppercase, s[i])] ELSE s[i]]

\* int(text) for a text of an optional sign and decimal digits between
\* optional spaces (underscores between digits are not modelled): Ok(n) or
\* the ValueError.
DigitValue(c) == IF c = "U+0663" THEN 3 ELSE IndexOf(digits, c) - 1

int(text) ==
    LET t     == strip(text)
        minus == t # <<>> /\ t[1] = "-"
        body  == IF t # <<>> /\ t[1] \in {"-", "+"} THEN Tail(t) ELSE t
    IN  IF body = <<>> \/ \E i \in DOMAIN body : ~isdigit(body[i])
        THEN Err("invalid literal for int() with base 10")
        ELSE The({ Ok(IF minus THEN 0 - n ELSE n) :
                   n \in {SumSeq([i \in DOMAIN body |->
                             DigitValue(body[i]) * 10 ^ (Len(body) - i)])} })

\* random.shuffle(password): one of the permutations the model draws.
shuffle(password, how) ==
    LET n == Len(password) IN
    CASE how = "same"    -> password
      [] how = "reverse" -> [i \in 1..n |-> password[n + 1 - i]]
      [] how = "rotate"  -> [i \in 1..n |-> password[(i % n) + 1]]

\* generate_password whose first characters are a lowercase and an
\* uppercase letter only: no secrets.choice(digits).
generate_password_no_digit(args, rand) ==
    The({ IF ~parsed.ok
          THEN [status |-> 500,
                error |-> "Failed to generate password: " \o parsed.msg]
          ELSE The({ [status |-> 200, password |-> generated_password,
                      strength |-> check_strength(generated_password)] :
                     generated_password \in {The({
                         shuffle(first \o [k \in 1..(length - Len(first)) |->
                                              choice(all_chars, rand.seed + rand.step * k)],
                                 rand.shuffle) :
                         length \in {IF parsed.val > 64 THEN 64
                                     ELSE IF parsed.val < 8 THEN 8 ELSE parsed.val},
                         first \in {<<choice(ascii_lowercase, rand.lower),
                                      choice(ascii_uppercase, rand.upper)>>
                                    \o (IF include_special
                                        THEN <<choice(special, rand.special)>>
                                        ELSE <<>>)},
                         all_chars \in {ascii_lowercase \o ascii_uppercase \o digits
                                        \o (IF include_special THEN special ELSE <<>>)} })} }) :
          parsed \in {IF args.length = None THEN Ok(16) ELSE int(args.length)},
          include_special \in {lower(IF args.include_special = None
                                     THEN <<"t","r","u","e">>
                                     ELSE args.include_special)
                               = <<"t","r","u","e">>} })

\* generate_password(), for the query arguments and the random draws: the
\* response.
generate_password(args, rand) ==
    The({ IF ~parsed.ok
          THEN [status |-> 500,
                error |-> "Failed to generate password: " \o parsed.msg]
          ELSE The({ [status |-> 200, password |-> generated_password,
                      strength |-> check_strength(generated_password)] :
                     generated_password \in {The({
                         shuffle(first \o [k \in 1..(length - Len(first)) |->
                                              choice(all_chars, rand.seed + rand.step * k)],
                                 rand.shuffle) :
                         length \in {IF parsed.val > 64 THEN 64
                                     ELSE IF parsed.val < 8 THEN 8 ELSE parsed.val},
                         first \in {<<choice(ascii_lowercase, rand.lower),
                                      choice(ascii_uppercase, rand.upper),
                                      choice(digits, rand.digit)>>
                                    \o (IF include_special
                                        THEN <<choice(special, rand.special)>>
                                        ELSE <<>>)},
                         all_chars \in {ascii_lowercase \o ascii_uppercase \o digits
                                        \o (IF include_special THEN special ELSE <<>>)} })} }) :
          parsed \in {IF args.length = None THEN Ok(16) ELSE int(args.length)},
          include_special \in {lower(IF args.include_special = None
                                     THEN <<"t","r","u","e">>
                                     ELSE args.include_special)
                               = <<"t","r","u","e">>} })

----------------------------------------------------------------------------
(* The server: one process that create_app initializes, the requests it    *)
(* serves one at a time, and its restarts.  The database outlives the      *)
(* process.  hist is history, not program state: whether an                *)
(* init_encryption_service call has completed in this process, the         *)
(* passphrase it was given, a bit that every request flips, and for each   *)
(* row the plaintext, passphrase and key it was made with and (in the runs *)
(* that track it) whether the service was initialized again since.  The    *)
(* clock the handlers read stands at now.                                  *)

NoCall == [fn |-> "none"]

NoReply == Reply("none", 0, Null, 0, "", None)

Idle == <<>>

InitHist ==
    [started |-> FALSE, seq |-> 0, passphrase |-> None, rows |-> <<>>,
     track |-> FALSE]

Init ==
    /\ encryption_service = Null
    /\ heap = <<>>
    /\ db = <<>>
    /\ now = 0
    /\ response = NoReply
    /\ pc = "idle"
    /\ threads = Idle
    /\ call = NoCall
    /\ hist = InitHist

\* init_encryption_service without its global statement: the assignment
\* makes a local name and the module global stays as it was.
init_encryption_service_local(global, objects, encryption_key, random) ==
    The({ [encryption_service |-> global, heap |-> objects, ok |-> made.ok] :
          made \in {EncryptionService(encryption_key, random)} })

\* init_encryption_service(encryption_key), as create_app calls it.  The
\* global is assigned only when the constructor returns; an exception leaves
\* it as it was.  The object the global referred to before is dropped.
init_encryption_service(global, objects, encryption_key, random) ==
    The({ IF made.ok
          THEN [encryption_service |-> 1, heap |-> <<made.val>>, ok |-> TRUE]
          ELSE [encryption_service |-> global, heap |-> objects, ok |-> FALSE] :
          made \in {EncryptionService(encryption_key, random)} })

Older(h) ==
    IF h.track THEN [i \in DOMAIN h.rows |-> [h.rows[i] EXCEPT !.again = TRUE]]
    ELSE h.rows

InitEncryptionService(passphrases) ==
    \E encryption_key \in passphrases, random \in urandom(KeyLen) :
        \E r \in {init_encryption_service(encryption_service, heap,
                                          encryption_key, random)} :
            /\ encryption_service' = r.encryption_service
            /\ heap' = r.heap
            /\ hist' = IF r.ok
                       THEN [hist EXCEPT !.started = TRUE,
                                         !.passphrase = encryption_key,
                                         !.rows = Older(hist)]
                       ELSE hist
            /\ UNCHANGED <<db, now, response, pc, threads, call>>

\* The process ends and a new one starts: the module global is None again.
Restart ==
    /\ encryption_service # Null
    /\ encryption_service' = Null
    /\ heap' = <<>>
    /\ hist' = [hist EXCEPT !.started = FALSE, !.passphrase = None,
                            !.rows = Older(hist)]
    /\ UNCHANGED <<db, now, response, pc, threads, call>>

GetPassword(users) ==
    \E u \in users, id \in 1..MaxId :
        \E r \in {get_password(db, encryption_service, heap, u, id, now)} :
        /\ db' = r.db
        /\ response' = r.response
        /\ hist' = [hist EXCEPT !.seq = 1 - @]
        /\ UNCHANGED <<encryption_service, heap, now, pc, threads, call>>

CreatePassword(users, datas, ivs, ids) ==
    /\ NextId(db) <= ids
    /\ \E u \in users, data \in datas, iv \in ivs :
        \E r \in {create_password(db, encryption_service, heap, u, data, now, iv)} :
        /\ db' = r.db
        /\ response' = r.response
        /\ hist' = IF r.response.status = 201
                   THEN [hist EXCEPT !.seq = 1 - @, !.rows =
                           [i \in DOMAIN r.db |->
                              IF i \in DOMAIN db THEN hist.rows[i]
                              ELSE [plaintext  |-> data.password,
                                    passphrase |-> hist.passphrase,
                                    key        |-> heap[encryption_service].key,
                                    again      |-> FALSE]]]
                   ELSE [hist EXCEPT !.seq = 1 - @]
        /\ UNCHANGED <<encryption_service, heap, now, pc, threads, call>>

DeletePassword(users) ==
    \E u \in users, id \in 1..MaxId :
        \E r \in {delete_password(db, u, id)} :
        /\ db' = r.db
        /\ response' = r.response
        /\ hist' = [hist EXCEPT !.seq = 1 - @,
                                !.rows = [i \in DOMAIN r.db |-> hist.rows[i]]]
        /\ UNCHANGED <<encryption_service, heap, now, pc, threads, call>>

\* Two users of one deployment (one passphrase).
Next ==
    \/ InitEncryptionService({<<"k","1">>})
    \/ Restart
    \/ GetPassword(Users)
    \/ CreatePassword(Users, RequestData, {Repeat(7, BlockSize)}, MaxId)
    \/ DeletePassword(Users)

Spec == Init /\ [][Next]_vars

\* A request that got as far as asking for the encryption service.
UsesService(r) ==
    \/ r.op = "create_password" /\ r.status # 400
    \/ r.op = "get_password" /\ r.status # 404

NotInitializedReplies ==
    {"Failed to create password: " \o NotInitialized,
     "Failed to fetch password: " \o NotInitialized}

\* get_encryption_service answers by whether an init call has completed.
C1_Gate ==
    get_encryption_service(encryption_service) =
        IF hist.started THEN Ok(1) ELSE Err(NotInitialized)

\* A request served before any init call has completed fails with the
\* not-initialized error and stores nothing; one served after it does not
\* fail, except for a password that UTF-8 cannot encode.
C1_Request ==
    (hist'.seq # hist.seq /\ UsesService(response')) =>
        IF ~hist.started
        THEN /\ response'.status = 500
             /\ response'.error \in NotInitializedReplies
             /\ db' = db
        ELSE \/ response'.status \in {200, 201}
             \/ response'.error = "Failed to create password: "
                                      \o EncryptionFailed \o UnicodeEncodeError

\* C1: in every run get_encryption_service, and with it every encrypt and
\* decrypt made for a request, fails with the not-initialized error as long
\* as no init_encryption_service call has completed in the process; once
\* one has completed, get_encryption_service returns the service (an
\* object with its key and cipher) and the requests' encrypt and decrypt
\* calls succeed.
C1_InitGating ==
    /\ [](C1_Gate /\ (hist.started =>
                         DOMAIN heap[encryption_service] = {"key", "cipher"}))
    /\ [][C1_Request]_vars

\* A row was stored after an init call, the process restarted, and the
\* owner's get_password is refused for want of the service.
C1_Witness ==
    /\ ~hist.started
    /\ response.op = "get_password"
    /\ response.id \in DOMAIN db
    /\ response.error = "Failed to fetch password: " \o NotInitialized

\* The row the request names exists and belongs to its caller / to another
\* user, in the database as the request found it.
Owned(r)   == r.id \in DOMAIN db /\ db[r.id].user_id = r.user
Foreign(r) == r.id \in DOMAIN db /\ db[r.id].user_id # r.user

\* The rows the step changed or removed.
Touched == {i \in DOMAIN db : i \notin DOMAIN db' \/ db'[i] # db[i]}

C4_Request ==
    (hist'.seq # hist.seq) =>
        /\ response'.password # None =>
              /\ response'.op = "get_password"
              /\ Owned(response')
              /\ response'.password = hist.rows[response'.id].plaintext
        /\ (response'.op \in {"get_password", "delete_password"}
              /\ ~Owned(response')) =>
              /\ response'.status = 404
              /\ response'.error = "Password not found"
              /\ response'.password = None
              /\ db' = db
        /\ (response'.op = "delete_password" /\ Owned(response')) =>
              /\ response'.status = 200
              /\ DOMAIN db' = DOMAIN db \ {response'.id}
        /\ \A i \in Touched :
              /\ response'.op \in {"get_password", "delete_password"}
              /\ response'.id = i
              /\ response'.user = db[i].user_id

\* C4: in every run of create_password, get_password and delete_password
\* requests by two users, a response carries a decrypted password only when
\* it is get_password for a row whose user_id is the caller (and then it is
\* that row's plaintext); get_password and delete_password for a row of
\* another user, or for no row, answer 404 'Password not found' with no
\* plaintext and leave every row, last_used included, as it was; and a
\* row is changed or removed only by a request of its owner for that row.
C4_OwnerOnly == [][C4_Request]_vars

\* User 2 asked for a row of user 1 that had not been read before, was
\* refused, and the row is still unread.
C4_Witness ==
    /\ response.op = "get_password"
    /\ response.user = 2
    /\ response.status = 404
    /\ response.id \in DOMAIN db
    /\ db[response.id].user_id = 1
    /\ db[response.id].last_used = NoTime

MaxKeyRows == 1   \* row ids in the runs with changing keys

\* One user, and a deployment whose ENCRYPTION_KEY changes between starts.
NextKeys ==
    \/ InitEncryptionService(Passphrases)
    \/ Restart
    \/ GetPassword({1})
    \/ CreatePassword({1}, {[service_name |-> <<"s">>, password |-> <<"p","w">>]},
                      {Repeat(7, BlockSize)}, MaxKeyRows)
    \/ DeletePassword({1})

InitKeys ==
    /\ encryption_service = Null
    /\ heap = <<>>
    /\ db = <<>>
    /\ now = 0
    /\ response = NoReply
    /\ pc = "idle"
    /\ threads = Idle
    /\ call = NoCall
    /\ hist = [InitHist EXCEPT !.track = TRUE]

SpecKeys == InitKeys /\ [][NextKeys]_vars

----------------------------------------------------------------------------
(* Calls of encrypt and decrypt on EncryptionService objects.  call is the *)
(* last call: the object and plaintext of the encrypt call that made the   *)
(* token, the token (as it was returned, or as it was changed since), how  *)
(* it was changed, and the outcome of the decrypt call made on it.         *)

Nothing == [ok |-> FALSE, none |-> TRUE]

\* Two objects, built from two passphrases; the first is the process-wide
\* one.
CryptoHeap ==
    <<EncryptionService(<<"k","1">>, Repeat(7, KeyLen)).val,
      EncryptionService(<<"k","2">>, Repeat(7, KeyLen)).val>>

InitCrypto ==
    /\ encryption_service = 1
    /\ heap = CryptoHeap
    /\ db = <<>>
    /\ now = 0
    /\ response = NoReply
    /\ pc = "idle"
    /\ threads = Idle
    /\ call = NoCall
    /\ hist = [InitHist EXCEPT !.started = TRUE, !.passphrase = <<"k","1">>]

\* Plaintexts: empty, short, one block less some, a whole block, non-ASCII,
\* and one that UTF-8 cannot encode.
CryptoPlaintexts ==
    {<<>>, <<"p","w">>, StrongPassword, Repeat("a", BlockSize),
     <<"U+00E9">>, <<"U+0663","a">>, <<"a","U+D800">>}

EncryptCall(plaintexts, ivs) ==
    /\ pc = "idle"
    /\ call = NoCall
    /\ \E self \in DOMAIN heap, p \in plaintexts, t \in 0..MaxTime, iv \in ivs :
        \E r \in {encrypt(heap[self], p, t, iv)} :
            call' = [fn |-> "encrypt", self |-> self, plaintext |-> p,
                     token |-> r, cause |-> "none", by |-> Null, out |-> Nothing]
    /\ UNCHANGED <<encryption_service, heap, db, now, response, pc, threads, hist>>

HasToken == call.fn \in {"encrypt", "changed"} /\ call.token.ok

DecryptCall ==
    /\ pc = "idle"
    /\ HasToken
    /\ \E self \in DOMAIN heap :
        \E r \in {decrypt(heap[self], call.token.val)} :
            call' = [call EXCEPT !.fn = "decrypt", !.by = self, !.out = r]
    /\ UNCHANGED <<encryption_service, heap, db, now, response, pc, threads, hist>>

\* The bytes a token text stands for, and the regions in them.
TokenBytes(token) == urlsafe_b64decode(str_encode(token).val).val
TokenText(bytes) == bytes_decode(urlsafe_b64encode(bytes)).val
CiphertextRegion(d) == (1 + TsLen + BlockSize + 1)..(Len(d) - TagLen)
TagRegion(d) == (Len(d) - TagLen + 1)..Len(d)

Fresh == call.fn = "encrypt" /\ call.token.ok /\ call.token.val # <<>>

Changed(token, cause) ==
    /\ call' = [call EXCEPT !.fn = "changed", !.token = Ok(token), !.cause = cause]
    /\ UNCHANGED <<encryption_service, heap, db, now, response, pc, threads, hist>>

\* One byte of the ciphertext or of the tag becomes another byte.
TamperByte(deltas) ==
    /\ pc = "idle"
    /\ Fresh
    /\ \E d \in {TokenBytes(call.token.val)} :
        \E i \in CiphertextRegion(d) \cup TagRegion(d), delta \in deltas :
            Changed(TokenText([d EXCEPT ![i] = (@ + delta) % 256]),
                    IF i \in TagRegion(d) THEN "tag" ELSE "ciphertext")

\* One character of the token text that stands for ciphertext or tag bits
\* becomes the next character of the alphabet.
TamperText ==
    /\ pc = "idle"
    /\ Fresh
    /\ \E t \in {call.token.val} :
        \E i \in (((1 + TsLen + BlockSize) * 4) \div 3 + 2)..Len(t) :
            /\ t[i] # "="
            /\ Changed([t EXCEPT ![i] = Chr(B64Char((B64Value(Ord(@)) + 1) % 64))],
                       "text")

\* The caller is done with the outcome.
Return ==
    /\ pc = "idle"
    /\ call.fn \in {"decrypt", "check_strength", "generate_password"}
    /\ call' = NoCall
    /\ UNCHANGED <<encryption_service, heap, db, now, response, pc, threads, hist>>

NextCrypto ==
    \/ EncryptCall(CryptoPlaintexts, urandom(BlockSize))
    \/ TamperByte({1, 128})
    \/ TamperText
    \/ DecryptCall
    \/ Return

SpecCrypto == InitCrypto /\ [][NextCrypto]_vars

\* A decrypt call by the object that made the token, on the token as made.
RoundTrip == call.fn = "decrypt" /\ call.cause = "none" /\ call.by = call.self

\* A str that UTF-8 can encode: no surrogate code point in it.
Encodable(p) == \A i \in DOMAIN p : Ord(p[i]) \notin 55296..57343

\* A token text: base64 of version, timestamp, IV, whole blocks, tag.
IsToken(t) ==
    /\ t # <<>>
    /\ \A i \in DOMAIN t : IsData(Ord(t[i])) \/ t[i] = "="
    /\ \E d \in {TokenBytes(t)} :
          /\ d[1] = Version
          /\ Len(d) > 1 + TsLen + BlockSize + TagLen
          /\ (Len(d) - (1 + TsLen + BlockSize + TagLen)) % BlockSize = 0

\* C2 as stated: for one EncryptionService object and every plaintext str
\* p, encrypt(p) returns and decrypt(encrypt(p)) = p; for non-empty p
\* through a token, for the empty p with encrypt("") = "" and
\* decrypt("") = "" and no error.
C2_RoundTripEveryString ==
    /\ call.fn \in {"encrypt", "decrypt"} =>
          /\ call.token.ok
          /\ IF call.plaintext = <<>> THEN call.token.val = <<>>
             ELSE IsToken(call.token.val)
    /\ RoundTrip => call.out = Ok(call.plaintext)

\* C2, amended: for one EncryptionService object and every plaintext str p
\* that UTF-8 can encode, decrypt(encrypt(p)) = p; a non-empty p goes
\* through a token, and encrypt("") = "" and decrypt("") = "" without a
\* token and without an error.  For a str with a surrogate code point
\* encrypt raises "Encryption failed: ..." and there is nothing to decrypt.
C2_RoundTrip ==
    /\ call.fn \in {"encrypt", "decrypt"} =>
          IF Encodable(call.plaintext)
          THEN /\ call.token.ok
               /\ IF call.plaintext = <<>> THEN call.token.val = <<>>
                  ELSE IsToken(call.token.val)
          ELSE call.token = Err(EncryptionFailed \o UnicodeEncodeError)
    /\ RoundTrip => call.out = Ok(call.plaintext)

\* A non-ASCII plaintext came back from its token.
C2_Witness ==
    /\ RoundTrip
    /\ call.plaintext = <<"U+0663","a">>
    /\ IsToken(call.token.val)
    /\ call.out = Ok(call.plaintext)

\* C3: for every token encrypt produced, after any single byte of its
\* ciphertext or of its tag is changed decrypt raises the decryption-failed
\* error, whichever object decrypts; and after a character of the token
\* text in those regions is changed decrypt raises that error or returns
\* the original plaintext (the text still stands for the same bytes): it
\* never returns another plaintext or a part of one.
C3_TamperDetection ==
    /\ (call.fn = "decrypt" /\ call.cause \in {"ciphertext", "tag"}) =>
          call.out = Err(DecryptionFailed \o InvalidToken)
    /\ (call.fn = "decrypt" /\ call.cause = "text") =>
          \/ call.out = Err(DecryptionFailed \o InvalidToken)
          \/ call.by = call.self /\ call.out = Ok(call.plaintext)

\* The object that made a token refuses it after a byte of its tag changed.
C3_Witness ==
    /\ call.fn = "decrypt"
    /\ call.cause = "tag"
    /\ call.by = call.self
    /\ call.plaintext = StrongPassword
    /\ ~call.out.ok

----------------------------------------------------------------------------
(* The ways a decrypt call fails.  Besides changed bytes: a token cut      *)
(* short, a text that is no token, a token of another key, and tokens      *)
(* that a holder of the key signed over a ciphertext with bad padding or   *)
(* over bytes that are not UTF-8.  A token can also be left in the         *)
(* caller's row of the passwords table, where get_password finds it.       *)

Truncate ==
    /\ pc = "idle"
    /\ Fresh
    /\ \E t \in {call.token.val} :
        \E n \in {1, 2, Len(t) \div 2, Len(t) - 2, Len(t) - 1} :
            Changed(SubSeq(t, 1, n), "truncated")

MalformedTokens ==
    {<<"x">>, <<"A","A","A","A">>, <<"=">>, <<"U+00E9">>, <<"U+D800">>}

Made(self, token, cause) ==
    /\ call' = [fn |-> "changed", self |-> self, plaintext |-> None,
                token |-> Ok(token), cause |-> cause, by |-> Null, out |-> Nothing]
    /\ UNCHANGED <<encryption_service, heap, db, now, response, pc, threads, hist>>

Malformed ==
    /\ pc = "idle"
    /\ call = NoCall
    /\ \E t \in MalformedTokens : Made(1, t, "malformed")

\* Fernet's token over a given ciphertext.
Fernet_sign(cipher, current_time, iv, ciphertext) ==
    The({ urlsafe_b64encode(basic_parts \o HMAC(cipher.signing_key, basic_parts)) :
          basic_parts \in
            {<<Version>> \o ToBytes(current_time, TsLen) \o iv \o ciphertext} })

\* A block that does not end in PKCS7 padding, encrypted and signed.
BadPadding ==
    /\ pc = "idle"
    /\ call = NoCall
    /\ \E self \in DOMAIN heap, t \in 0..MaxTime, iv \in urandom(BlockSize) :
        Made(self,
             bytes_decode(Fernet_sign(heap[self].cipher, t, iv,
                 AES_CBC_encrypt(heap[self].cipher.encryption_key, iv,
                                 Repeat(0, BlockSize)))).val,
             "padding")

\* Bytes that are not UTF-8, encrypted and signed.
NotText == {<<255>>, <<195>>, <<97, 128>>}

Undecodable ==
    /\ pc = "idle"
    /\ call = NoCall
    /\ \E self \in DOMAIN heap, data \in NotText, t \in 0..MaxTime,
          iv \in urandom(BlockSize) :
        Made(self, bytes_decode(Fernet_encrypt(heap[self].cipher, data, t, iv)).val,
             "undecodable")

\* The token is written to row 1, a row of user 1 (the column holds any
\* text that UTF-8 can encode).
Store ==
    /\ pc = "idle"
    /\ HasToken
    /\ call.token.val # <<>>
    /\ str_encode(call.token.val).ok
    /\ db' = <<NewRow(1, <<"s">>, call.token.val, [is_weak |-> FALSE], FALSE, 0)>>
    /\ pc' = "stored"
    /\ UNCHANGED <<encryption_service, heap, now, response, threads, call, hist>>

NextFailures ==
    \/ EncryptCall({<<"p","w">>}, {Repeat(7, BlockSize)})
    \/ TamperByte({1})
    \/ Truncate
    \/ Malformed
    \/ BadPadding
    \/ Undecodable
    \/ DecryptCall
    \/ Return
    \/ Store
    \/ GetPassword({1})

SpecFailures == InitCrypto /\ [][NextFailures]_vars

\* The outcome of decrypt for a text that is no token.
GenericFailure == decrypt(CryptoHeap[1], <<"x">>)

\* C10: every decrypt call that fails, whatever the cause, has one and the
\* same outcome, and every get_password that fails on its row's token
\* carries that same outcome: nothing in the error tells the cause.
C10_GenericFailure ==
    /\ (call.fn = "decrypt" /\ ~call.out.ok) => call.out = GenericFailure
    /\ (response.op = "get_password" /\ response.status = 500) =>
          response.error = "Failed to fetch password: " \o GenericFailure.msg

----------------------------------------------------------------------------
(* Calls of check_strength.  The passwords are every string of up to       *)
(* MaxCore characters over one character of each kind, alone or followed   *)
(* by "~" (which no rule counts) up to the lengths around the two length   *)
(* rules, and the examples of the documentation.                           *)

MaxCore == 3

CoreCharacters == {"a", "Z", "7", "!", "?", "~", " ", "U+00C9", "U+00E9", "U+0663"}

PaddedLengths == {7, 8, 9, 11, 12, 13}

Cores == UNION {[1..n -> CoreCharacters] : n \in 0..MaxCore}

StrengthExamples ==
    {<<"s","h","o","r","t">>, StrongPassword,
     <<"a","b","c","d","e","f","g","h">>}

StrengthPasswords ==
    Cores \cup {c \o Repeat("~", n - Len(c)) : c \in Cores, n \in PaddedLengths}
    \cup StrengthExamples

InitStrength ==
    /\ encryption_service = Null
    /\ heap = <<>>
    /\ db = <<>>
    /\ now = 0
    /\ response = NoReply
    /\ pc = "idle"
    /\ threads = Idle
    /\ call = NoCall
    /\ hist = InitHist

CheckStrength ==
    /\ call = NoCall
    /\ \E password \in StrengthPasswords :
          call' = [fn |-> "check_strength", password |-> password,
                   out |-> check_strength(password)]
    /\ UNCHANGED <<encryption_service, heap, db, now, response, pc, threads, hist>>

NextStrength ==
    \/ CheckStrength
    \/ Return

SpecStrength == InitStrength /\ [][NextStrength]_vars

\* The five rules, as the documentation states them.
Uppercase == Range(ascii_uppercase) \cup {"U+00C9"}
Lowercase == Range(ascii_lowercase) \cup {"U+00E9"}
Digits    == Range(digits) \cup {"U+0663"}
Specials  == {"!","@","#","$","%","^","&","*","(",")","_","+","-","=",
              "[","]","{","}","|",";",":",",",".","<",">","?"}

Rule(p, n) ==
    CASE n = 1 -> Len(p) >= 8
      [] n = 2 -> Len(p) >= 12
      [] n = 3 -> Range(p) \cap Uppercase # {} /\ Range(p) \cap Lowercase # {}
      [] n = 4 -> Range(p) \cap Digits # {}
      [] n = 5 -> Range(p) \cap Specials # {}

Message ==
    <<"Password should be at least 8 characters", "",
      "Add uppercase and lowercase letters", "Add numbers",
      "Add special characters">>

Failed(p) ==
    LET Missed(n) == n # 2 /\ ~Rule(p, n) IN SelectSeq(<<1, 2, 3, 4, 5>>, Missed)

\* C5: for every password, check_strength's score is the number of
\* satisfied rules among length >= 8, length >= 12, both an uppercase and a
\* lowercase letter, a digit, a character of the special set (so it is
\* between 0 and 5); max_score is 5; is_weak is true iff score < 4; and
\* feedback is, in the order length-8, upper/lower, digit, special, exactly
\* the messages of the failed rules among those four.
C5_FiveRules ==
    call.fn = "check_strength" =>
        LET p == call.password
            score == Cardinality({n \in 1..5 : Rule(p, n)})
        IN  /\ call.out.score = score
            /\ call.out.score \in 0..5
            /\ call.out.max_score = 5
            /\ call.out.is_weak = (score < 4)
            /\ call.out.feedback = [k \in DOMAIN Failed(p) |-> Message[Failed(p)[k]]]

\* A password of 12 characters with a letter of one case only, a digit and
\* a special character: score 4 of 5, not weak, one message.
C5_Witness ==
    /\ call.fn = "check_strength"
    /\ Len(call.password) = 12
    /\ call.out.score = 4
    /\ ~call.out.is_weak
    /\ call.out.feedback = <<"Add uppercase and lowercase letters">>

\* C6 as stated: "short" scores 1 with the 4 missed checks as feedback,
\* "Abcdef12!" scores 4 and is not weak, "abcdefgh" scores 1 and is weak.
C6_ExamplesAsStated ==
    call.fn = "check_strength" =>
        /\ call.password = <<"s","h","o","r","t">> =>
              call.out.score = 1 /\ Len(call.out.feedback) = 4
        /\ call.password = StrongPassword =>
              call.out.score = 4 /\ ~call.out.is_weak
        /\ call.password = <<"a","b","c","d","e","f","g","h">> =>
              call.out.score = 1 /\ call.out.is_weak

\* C6, amended: "short" scores 0 (it satisfies none of the five rules) with
\* the 4 missed checks as feedback and is weak; "Abcdef12!" scores 4 and is
\* not weak; "abcdefgh" scores 1 and is weak.
C6_Examples ==
    call.fn = "check_strength" =>
        /\ call.password = <<"s","h","o","r","t">> =>
              /\ call.out.score = 0
              /\ call.out.is_weak
              /\ call.out.feedback =
                    <<"Password should be at least 8 characters",
                      "Add uppercase and lowercase letters", "Add numbers",
                      "Add special characters">>
        /\ call.password = StrongPassword =>
              /\ call.out.score = 4
              /\ ~call.out.is_weak
              /\ call.out.feedback = <<>>
        /\ call.password = <<"a","b","c","d","e","f","g","h">> =>
              /\ call.out.score = 1
              /\ call.out.is_weak
              /\ Len(call.out.feedback) = 3

\* check_strength was called on "abcdefgh", the password on the length
\* boundary.
C6_Witness ==
    /\ call.fn = "check_strength"
    /\ call.password = <<"a","b","c","d","e","f","g","h">>
    /\ call.out.score = 1

----------------------------------------------------------------------------
(* Requests to generate_password.  The length argument is the decimal text *)
(* of a number around the clamp's and the length rules' boundaries, or is  *)
(* absent, or is no number; the random draws are the four first            *)
(* characters, the stream of the fill characters and the shuffle.          *)

RECURSIVE DigitsOf(_)
DigitsOf(n) ==
    IF n < 10 THEN <<digits[n + 1]>>
    ELSE Append(DigitsOf(n \div 10), digits[(n % 10) + 1])

\* str(n)
str(n) == IF n < 0 THEN <<"-">> \o DigitsOf(0 - n) ELSE DigitsOf(n)

RequestedLengths == {-5, 0, 7, 8, 11, 12, 13, 16, 63, 64, 65, 1000}

LengthArgs == {str(n) : n \in RequestedLengths} \cup {None, <<"a","b","c">>}

IncludeSpecialArgs ==
    {None, <<"t","r","u","e">>, <<"T","r","u","e">>, <<"f","a","l","s","e">>,
     <<"1">>}

RandomDraws ==
    [lower : {0, 25}, upper : {0, 25}, digit : {0, 9}, special : {0, 25},
     seed : {0, 5}, step : {0, 7}, shuffle : {"same", "reverse", "rotate"}]

GeneratePassword ==
    /\ call = NoCall
    /\ \E length \in LengthArgs, include \in IncludeSpecialArgs, rand \in RandomDraws :
        \E r \in {generate_password([length |-> length, include_special |-> include],
                                    rand)} :
            call' = [fn |-> "generate_password", length |-> length,
                     include_special |-> include, out |-> r]
    /\ UNCHANGED <<encryption_service, heap, db, now, response, pc, threads, hist>>

NextGenerate ==
    \/ GeneratePassword
    \/ Return

SpecGenerate == InitStrength /\ [][NextGenerate]_vars

\* The length a request asks for (16 when it names none), and the length
\* after clamping to 8..64.
Requested(length) ==
    IF length = None THEN 16
    ELSE CHOOSE n \in RequestedLengths : str(n) = length

Effective(length) ==
    LET n == Requested(length) IN IF n < 8 THEN 8 ELSE IF n > 64 THEN 64 ELSE n

WithSpecial(include) ==
    include \in {None, <<"t","r","u","e">>, <<"T","r","u","e">>}

\* C7: every request to generate_password whose length after clamping to
\* 8..64 is at least 12 is answered, for every outcome of the random
\* choices and of the shuffle, with a password of that length whose
\* reported strength is score 5 and not weak when special characters are
\* included, and score 4 and not weak when they are not.
C7_SelfConsistent ==
    (call.fn = "generate_password" /\ call.length # <<"a","b","c">>
       /\ Effective(call.length) >= 12) =>
        /\ call.out.status = 200
        /\ Len(call.out.password) = Effective(call.length)
        /\ call.out.strength.score =
              IF WithSpecial(call.include_special) THEN 5 ELSE 4
        /\ ~call.out.strength.is_weak

\* A request for 1000 characters without special characters got 64 of them
\* and score 4.
C7_Witness ==
    /\ call.fn = "generate_password"
    /\ call.length = str(1000)
    /\ call.include_special = <<"f","a","l","s","e">>
    /\ Len(call.out.password) = 64
    /\ call.out.strength.score = 4

\* The rows made under the passphrase the service has now.
SamePassphrase == {i \in DOMAIN db : hist.rows[i].passphrase = hist.passphrase}

\* C8: whenever the process-wide service was built from a non-empty
\* passphrase, it holds the very key of every earlier service built from
\* that passphrase, and each row encrypted by such a service (before a
\* restart or a repeated init_encryption_service call) decrypts to its
\* original plaintext; a service holds another key than the one a row was
\* made with only when a passphrase differs or none was supplied (the key
\* is then random), and then the row does not decrypt.
C8_KeyDeterminism ==
    encryption_service # Null =>
        \A i \in DOMAIN db :
            \E self \in {heap[encryption_service]} :
            /\ (Truthy(hist.passphrase) /\ i \in SamePassphrase) =>
                  /\ self.key = hist.rows[i].key
                  /\ decrypt(self, db[i].encrypted_password)
                        = Ok(hist.rows[i].plaintext)
            /\ self.key # hist.rows[i].key =>
                  /\ ~Truthy(hist.passphrase) \/ i \notin SamePassphrase
                  /\ ~decrypt(self, db[i].encrypted_password).ok

\* A row made before the service was initialized again with the same
\* passphrase, and read since through get_password.
C8_Witness ==
    /\ encryption_service # Null
    /\ Truthy(hist.passphrase)
    /\ \E i \in SamePassphrase :
          /\ hist.rows[i].again
          /\ response = Reply("get_password", 1, i, 200, "", hist.rows[i].plaintext)

----------------------------------------------------------------------------
(* init_encryption_service running while request threads call              *)
(* get_encryption_service, encrypt and decrypt.  A step is what a thread   *)
(* does between two points where the interpreter can switch threads:       *)
(* one read or one write of the module global, or one statement of         *)
(* __init__.  threads[0] makes the init calls, the others serve requests;  *)
(* heap[o] holds the attributes object o has so far.                       *)

MaxInits == 2   \* init_encryption_service calls in a run

Requests == {1, 2}

InitThread == [pc |-> "idle", self |-> Null, encryption_key |-> None, random |-> <<>>]

RequestThread == [pc |-> "start", svc |-> Null, token |-> Nothing, out |-> Nothing]

AttributeError == "'EncryptionService' object has no attribute 'cipher'"

InitConc ==
    /\ encryption_service = Null
    /\ heap = <<>>
    /\ db = <<>>
    /\ now = 0
    /\ response = NoReply
    /\ pc = "idle"
    /\ call = NoCall
    /\ hist = InitHist
    /\ threads = [t \in {0} \cup Requests |->
                     IF t = 0 THEN InitThread ELSE RequestThread]

Only(t, thread) ==
    /\ threads' = [threads EXCEPT ![t] = thread]
    /\ UNCHANGED <<db, now, response, pc, call, hist>>

\* init_encryption_service(encryption_key) is called.
InitCall ==
    /\ threads[0].pc = "idle"
    /\ Len(heap) < MaxInits
    /\ \E encryption_key \in {<<"k","1">>, <<"k","2">>, <<"U+D800">>},
          random \in urandom(KeyLen) :
          Only(0, [threads[0] EXCEPT !.pc = "called",
                                     !.encryption_key = encryption_key,
                                     !.random = random])
    /\ UNCHANGED <<encryption_service, heap>>

\* The object is allocated and published at once, to be filled in later.
InitAllocPublished ==
    /\ threads[0].pc = "called"
    /\ heap' = Append(heap, <<>>)
    /\ encryption_service' = Len(heap) + 1
    /\ Only(0, [threads[0] EXCEPT !.pc = "allocated", !.self = Len(heap) + 1])

\* EncryptionService(...): the object exists, without attributes, and only
\* the constructor refers to it.
InitAlloc ==
    /\ threads[0].pc = "called"
    /\ heap' = Append(heap, <<>>)
    /\ Only(0, [threads[0] EXCEPT !.pc = "allocated", !.self = Len(heap) + 1])
    /\ UNCHANGED encryption_service

\* self.key = ...; an exception ends the call.
InitKey ==
    /\ threads[0].pc = "allocated"
    /\ \E k \in {EncryptionService_key(threads[0].encryption_key, threads[0].random)} :
          IF k.ok
          THEN /\ heap' = [heap EXCEPT ![threads[0].self] = [key |-> k.val]]
               /\ Only(0, [threads[0] EXCEPT !.pc = "keyed"])
          ELSE /\ heap' = heap
               /\ Only(0, [InitThread EXCEPT !.pc = "raised"])
    /\ UNCHANGED encryption_service

\* self.cipher = Fernet(self.key)
InitCipher ==
    /\ threads[0].pc = "keyed"
    /\ \E c \in {EncryptionService_cipher(heap[threads[0].self].key)} :
          IF c.ok
          THEN /\ heap' = [heap EXCEPT ![threads[0].self] =
                              [key |-> @.key, cipher |-> c.val]]
               /\ Only(0, [threads[0] EXCEPT !.pc = "constructed"])
          ELSE /\ heap' = heap
               /\ Only(0, [InitThread EXCEPT !.pc = "raised"])
    /\ UNCHANGED encryption_service

\* encryption_service = <the constructed object>
InitAssign ==
    /\ threads[0].pc = "constructed"
    /\ encryption_service' = threads[0].self
    /\ Only(0, InitThread)
    /\ UNCHANGED heap

\* The exception reaches create_app.
InitRaised ==
    /\ threads[0].pc = "raised"
    /\ Only(0, InitThread)
    /\ UNCHANGED <<encryption_service, heap>>

\* get_encryption_service: "if encryption_service is None: raise"
RequestCheck(t) ==
    /\ threads[t].pc = "start"
    /\ \E r \in {get_encryption_service(encryption_service)} :
          IF r.ok THEN Only(t, [threads[t] EXCEPT !.pc = "checked"])
          ELSE Only(t, [threads[t] EXCEPT !.pc = "failed", !.out = r])
    /\ UNCHANGED <<encryption_service, heap>>

\* get_encryption_service: "return encryption_service"
RequestReturn(t) ==
    /\ threads[t].pc = "checked"
    /\ Only(t, [threads[t] EXCEPT !.pc = "got", !.svc = encryption_service])
    /\ UNCHANGED <<encryption_service, heap>>

\* encryption_service.encrypt(password_text)
RequestEncrypt(t) ==
    /\ threads[t].pc = "got"
    /\ IF "cipher" \in DOMAIN heap[threads[t].svc]
       THEN \E r \in {encrypt(heap[threads[t].svc], <<"p","w">>, 0,
                              Repeat(7 + t, BlockSize))} :
               Only(t, [threads[t] EXCEPT !.pc = "encrypted", !.token = r])
       ELSE Only(t, [threads[t] EXCEPT !.pc = "done",
                        !.out = Err(EncryptionFailed \o AttributeError)])
    /\ UNCHANGED <<encryption_service, heap>>

\* encryption_service.decrypt(password.encrypted_password), later, through
\* the same reference.
RequestDecrypt(t) ==
    /\ threads[t].pc = "encrypted"
    /\ threads[t].token.ok
    /\ \E r \in {decrypt(heap[threads[t].svc], threads[t].token.val)} :
          Only(t, [threads[t] EXCEPT !.pc = "done", !.out = r])
    /\ UNCHANGED <<encryption_service, heap>>

\* The thread serves its next request.
RequestDone(t) ==
    /\ threads[t].pc \in {"done", "failed"}
    /\ Only(t, RequestThread)
    /\ UNCHANGED <<encryption_service, heap>>

NextConc ==
    \/ InitCall
    \/ InitAlloc
    \/ InitKey
    \/ InitCipher
    \/ InitAssign
    \/ InitRaised
    \/ \E t \in Requests : RequestCheck(t)
    \/ \E t \in Requests : RequestReturn(t)
    \/ \E t \in Requests : RequestEncrypt(t)
    \/ \E t \in Requests : RequestDecrypt(t)
    \/ \E t \in Requests : RequestDone(t)

SpecConc == InitConc /\ [][NextConc]_vars

Complete(o) == DOMAIN heap[o] = {"key", "cipher"}

\* What a request thread has seen of the service.
C9_Barrier ==
    \A t \in Requests :
        /\ threads[t].pc = "failed" => threads[t].out = Err(NotInitialized)
        /\ threads[t].pc \in {"got", "encrypted", "done"} =>
              /\ threads[t].svc # Null
              /\ Complete(threads[t].svc)
        /\ threads[t].pc = "done" => threads[t].out = Ok(<<"p","w">>)

\* C9: in every interleaving of init_encryption_service with request
\* threads, a get_encryption_service call either raises the
\* not-initialized error or returns an object whose key and cipher are both
\* set; a thread runs encrypt and decrypt only on such an object, and they
\* give its plaintext back although the threads take no lock, because no
\* step changes the key or cipher an object has once it has them.
C9_InitBarrier ==
    /\ [](C9_Barrier /\ (encryption_service # Null => Complete(encryption_service)))
    /\ [][\A o \in DOMAIN heap : Complete(o) => heap'[o] = heap[o]]_vars

\* One thread is refused and another holds the first service while the
\* constructor of a second one has set the key and not yet the cipher.
C9_Witness ==
    /\ threads[0].pc = "keyed"
    /\ ~Complete(threads[0].self)
    /\ threads[1].pc = "failed"
    /\ threads[2].pc = "encrypted"
    /\ encryption_service = 1

----------------------------------------------------------------------------
(* create_password's reuse scan.  Two users store passwords that differ    *)
(* in case only, while the deployment's ENCRYPTION_KEY changes between     *)
(* init calls, so that a caller's earlier rows may not decrypt.  Rows are  *)
(* only added: the rows a request finds are the rows with smaller ids.     *)

MaxReuseRows == 3

ReusePasswords == {<<"p","w">>, <<"P","w">>}

NextReuse ==
    \/ InitEncryptionService({<<"k","1">>, <<"k","2">>})
    \/ CreatePassword(Users, [service_name : {<<"s">>}, password : ReusePasswords],
                      {Repeat(7, BlockSize)}, MaxReuseRows)

SpecReuse == Init /\ [][NextReuse]_vars

\* The rows that were stored when row i was made, belong to its owner, and
\* were encrypted under the key of the service that made row i (the rows
\* that service can decrypt).
Readable(i) ==
    {j \in DOMAIN db : /\ j < i
                       /\ db[j].user_id = db[i].user_id
                       /\ hist.rows[j].key = hist.rows[i].key}

\* C11: in create_password a stored row of the caller that does not
\* decrypt is skipped and never makes the request fail (a request with
\* service name and password made after an init call is answered 201), and
\* the new row's is_reused is true iff the submitted password equals,
\* character for character and case-sensitively, the plaintext of at least
\* one already stored row of the same owner that decrypts; rows of other
\* owners never influence it.
C11_ReuseScan ==
    /\ \A i \in DOMAIN db :
          db[i].is_reused =
              (\E j \in Readable(i) : hist.rows[j].plaintext = hist.rows[i].plaintext)
    /\ response.op = "create_password" =>
          \/ response.status = 201 /\ response.id \in DOMAIN db
          \/ /\ response.status = 500
             /\ response.error = "Failed to create password: " \o NotInitialized
             /\ db = <<>>

\* The caller's third row repeats the password of two earlier rows of the
\* caller: the first was made under another key and is skipped (so the
\* second was not flagged), the second decrypts and flags the third.
C11_Witness ==
    /\ DOMAIN db = {1, 2, 3}
    /\ \A i \in {1, 2, 3} : db[i].user_id = 1 /\ hist.rows[i].plaintext = <<"p","w">>
    /\ hist.rows[1].key # hist.rows[2].key
    /\ hist.rows[2].key = hist.rows[3].key
    /\ ~db[2].is_reused
    /\ db[3].is_reused
    /\ response = Reply("create_password", 1, 3, 201, "", None)

====
